---- MODULE Spec2Model ----
(***************************************************************************)
(* hello-wgpu: a winit ApplicationHandler (State) that builds a wgpu       *)
(* surface, device, vertex buffer and pipeline in resumed(), and in        *)
(* window_event() reconfigures the surface on Resized, renders one frame   *)
(* per RedrawRequested and asks the loop to exit on CloseRequested.        *)
(*                                                                         *)
(* The event loop (winit) and the GPU (wgpu) are collaborators.  The loop  *)
(* calls one handler at a time on one thread (the handlers take &mut self) *)
(* and, as the interface contract of the specification has it, delivers    *)
(* one activation and stops delivering once exit has been requested.       *)
(* A failing unwrap() or a wgpu validation error panics: the program       *)
(* aborts and main never returns Ok.                                       *)
(*                                                                         *)
(* Option<T> values are modelled as sequences: <<>> is None, <<x>> is      *)
(* Some(x).                                                                *)
(***************************************************************************)
EXTENDS Integers, Sequences, FiniteSets, TLC

\* ------------------------------------------------------------------ bounds
\* Number of events the loop delivers in one run.
MaxEvents == 5
\* Window dimensions range over 0..MaxDim.
MaxDim == 2
\* Window ids carried by window events range over 1..MaxWindowId.
MaxWindowId == 2

Dims == 0..MaxDim
WindowIds == 1..MaxWindowId

\* The format lists an adapter may report for the surface (never empty:
\* the adapter is requested as compatible with the surface).
CapabilityFormats ==
    { <<"Bgra8UnormSrgb", "Rgba8UnormSrgb">>,
      <<"Rgba8UnormSrgb">> }

\* ------------------------------------------------------------------- state
VARIABLES
    pc,              \* position of the single thread: "idle" (in the loop,
                     \* between handlers), a step of resumed() or of the
                     \* RedrawRequested arm, "aborted" or "returned"
    app,             \* State::app : Option<Application>
    loc,             \* the locals of a running resumed()
    output,          \* local `output` of the RedrawRequested arm (Option)
    encoder,         \* local `encoder` of the RedrawRequested arm (Option)
    submitted,       \* the command lists handed to queue.submit, in order
    presented,       \* the frames handed to present(), in order
    created,         \* how many objects of each kind have been created
    configureCalls,  \* number of surface.configure calls so far
    redrawRequests,  \* number of window.request_redraw calls so far
    redrawPending,   \* a requested redraw has not been delivered yet
    exiting,         \* event_loop.exit() has been called
    mainResult,      \* "running", "Ok" (main returned Ok(())) or "panicked"
    delivered,       \* number of events the loop has delivered
    resumesLeft,     \* activations the platform will still deliver
    lastEvent,       \* the event the running / last handler was called with
    repeated,        \* that event equals the one delivered just before it
    frameLog,        \* the steps the running / last RedrawRequested arm took
    acquireFailed,   \* get_current_texture() has returned Err
    sizeInForce      \* size of the window at activation, then of the last
                     \* Resized event delivered to the application's window
                     \* with both dimensions non-zero

vars == << pc, app, loc, output, encoder, submitted, presented, created,
           configureCalls, redrawRequests, redrawPending, exiting, mainResult,
           delivered, resumesLeft, lastEvent, repeated, frameLog,
           acquireFailed, sizeInForce >>

\* ------------------------------------------------------------- Option<T>
None == << >>
Some(x) == << x >>
IsSome(o) == Len(o) = 1
IsNone(o) == Len(o) = 0
Unwrap(o) == o[1]

\* --------------------------------------------------------------- records
\* wgpu::SurfaceConfiguration as resumed() builds it.
SurfaceConfiguration(formats, size) ==
    [ usage |-> "RENDER_ATTACHMENT",
      format |-> formats[1],
      width |-> size[1],
      height |-> size[2],
      present_mode |-> "AutoVsync",
      alpha_mode |-> "Auto",
      desired_maximum_frame_latency |-> 2,
      view_formats |-> << >> ]

\* The locals of resumed() before any of them is bound.
NoLocals ==
    [ window |-> None, surface |-> None, adapter |-> None, device |-> None,
      queue |-> None, surface_config |-> None, vertices_buffer |-> None,
      pipeline |-> None ]

\* The event a handler is called with.
Event(kind, window_id, width, height) ==
    [ kind |-> kind, window_id |-> window_id, width |-> width, height |-> height ]

NoEvent == Event("none", 0, 0, 0)

\* The three vertices of the triangle, as uploaded.
Triangle ==
    << [position |-> <<"0.0", "0.5">>, color |-> <<"1.0", "1.0", "1.0">>],
       [position |-> <<"0.5", "-0.5">>, color |-> <<"1.0", "1.0", "1.0">>],
       [position |-> <<"-0.5", "-0.5">>, color |-> <<"1.0", "1.0", "1.0">>] >>

\* wgpu::Color::BLACK as <<r, g, b, a>>.
ColorBLACK == << 0, 0, 0, 1 >>

Count(kind) == created[kind]
Bump(kind) == [created EXCEPT ![kind] = @ + 1]

\* -------------------------------------------------------------------- Init
Init ==
    /\ pc = "idle"
    /\ app = None
    /\ loc = NoLocals
    /\ output = None
    /\ encoder = None
    /\ submitted = << >>
    /\ presented = << >>
    /\ created = [ window |-> 0, surface |-> 0, device |-> 0, queue |-> 0,
                   buffer |-> 0, pipeline |-> 0, texture |-> 0, encoder |-> 0 ]
    /\ configureCalls = 0
    /\ redrawRequests = 0
    /\ redrawPending = FALSE
    /\ exiting = FALSE
    /\ mainResult = "running"
    /\ delivered = 0
    /\ resumesLeft = 1
    /\ lastEvent = NoEvent
    /\ repeated = FALSE
    /\ frameLog = << >>
    /\ acquireFailed = FALSE
    /\ sizeInForce = << 0, 0 >>

\* Mutation of CanDeliver: a handler may be called while another is
\* running (handlers not run to completion).
CanDeliverReentrant ==
    /\ pc \notin { "aborted", "returned" }
    /\ ~exiting
    /\ mainResult = "running"
    /\ delivered < MaxEvents

\* The loop is between handlers and may call the next one.
CanDeliver ==
    /\ pc = "idle"
    /\ ~exiting
    /\ mainResult = "running"
    /\ delivered < MaxEvents

\* A panic (failed unwrap, wgpu validation error): the handler stops where
\* it is, the loop never calls a handler again and main does not return Ok.
Panic ==
    /\ pc' = "aborted"
    /\ mainResult' = "panicked"

\* What every handler call does on entry: the loop has taken one event.
Deliver(ev) ==
    /\ CanDeliver
    /\ delivered' = delivered + 1
    /\ lastEvent' = ev
    /\ repeated' = (ev = lastEvent)

\* ---------------------------------------------------------------- resumed
\* resumed(), entry: create_window(..).unwrap(), Instance::new,
\* create_surface(..).unwrap().  `fail` is the unwrap that fails, if any.
Resumed(fail) ==
    /\ resumesLeft > 0
    /\ Deliver(Event("Resumed", 0, 0, 0))
    /\ resumesLeft' = resumesLeft - 1
    /\ IF fail = "create_window"
       THEN /\ Panic
            /\ UNCHANGED << loc, created >>
       ELSE IF fail = "create_surface"
       THEN /\ Panic
            /\ loc' = [NoLocals EXCEPT
                         !.window = Some([id |-> Count("window") + 1])]
            /\ created' = Bump("window")
       ELSE /\ pc' = "resumed_adapter"
            /\ loc' = [NoLocals EXCEPT
                         !.window = Some([id |-> Count("window") + 1]),
                         !.surface = Some([window |-> Count("window") + 1,
                                           config |-> None])]
            /\ created' = [created EXCEPT !.window = @ + 1, !.surface = @ + 1]
            /\ UNCHANGED mainResult
    /\ UNCHANGED << app, output, encoder, submitted, presented, configureCalls,
                    redrawRequests, redrawPending, exiting, frameLog,
                    acquireFailed, sizeInForce >>

\* instance.request_adapter(..).block_on().unwrap(): `found` is the adapter
\* (its format list for the surface), None when there is no compatible one.
RequestAdapter(found) ==
    /\ pc = "resumed_adapter"
    /\ IF IsNone(found)
       THEN /\ Panic
            /\ UNCHANGED loc
       ELSE /\ pc' = "resumed_device"
            /\ loc' = [loc EXCEPT !.adapter = Some([formats |-> Unwrap(found)])]
            /\ UNCHANGED mainResult
    /\ UNCHANGED << app, output, encoder, submitted, presented, created,
                    configureCalls, redrawRequests, redrawPending, exiting,
                    delivered, resumesLeft, lastEvent, repeated, frameLog, acquireFailed,
                    sizeInForce >>

\* Mutation of RequestDevice: a failed request makes resumed() return
\* early instead of panicking.
RequestDeviceReturning(ok) ==
    /\ pc = "resumed_device"
    /\ IF ~ok
       THEN /\ pc' = "idle"
            /\ loc' = NoLocals
            /\ UNCHANGED created
       ELSE /\ pc' = "resumed_configure"
            /\ loc' = [loc EXCEPT !.device = Some(Count("device") + 1),
                                  !.queue = Some(Count("queue") + 1)]
            /\ created' = [created EXCEPT !.device = @ + 1, !.queue = @ + 1]
    /\ UNCHANGED << app, output, encoder, submitted, presented, configureCalls,
                    redrawRequests, redrawPending, exiting, mainResult,
                    delivered, resumesLeft, lastEvent, repeated, frameLog,
                    acquireFailed, sizeInForce >>

\* adapter.request_device(..).block_on().unwrap()
RequestDevice(ok) ==
    /\ pc = "resumed_device"
    /\ IF ~ok
       THEN /\ Panic
            /\ UNCHANGED << loc, created >>
       ELSE /\ pc' = "resumed_configure"
            /\ loc' = [loc EXCEPT !.device = Some(Count("device") + 1),
                                  !.queue = Some(Count("queue") + 1)]
            /\ created' = [created EXCEPT !.device = @ + 1, !.queue = @ + 1]
            /\ UNCHANGED mainResult
    /\ UNCHANGED << app, output, encoder, submitted, presented, configureCalls,
                    redrawRequests, redrawPending, exiting, delivered,
                    resumesLeft, lastEvent, repeated, frameLog, acquireFailed,
                    sizeInForce >>

\* Mutation of ConfigureSurface: the configuration is built and kept but
\* the surface.configure call is missing.
ConfigureSurfaceOmitted(inner_size) ==
    /\ pc = "resumed_configure"
    /\ LET config == SurfaceConfiguration(Unwrap(loc.adapter).formats, inner_size)
       IN  loc' = [loc EXCEPT !.surface_config = Some(config)]
    /\ sizeInForce' = inner_size
    /\ pc' = "resumed_buffer"
    /\ UNCHANGED << app, output, encoder, submitted, presented, created,
                    configureCalls, redrawRequests, redrawPending, exiting,
                    mainResult, delivered, resumesLeft, lastEvent, repeated,
                    frameLog, acquireFailed >>

\* get_capabilities, the SurfaceConfiguration literal and
\* surface.configure(&device, &surface_config).  `inner_size` is what
\* window.inner_size() returns.
ConfigureSurface(inner_size) ==
    /\ pc = "resumed_configure"
    /\ LET config == SurfaceConfiguration(Unwrap(loc.adapter).formats, inner_size)
       IN  loc' = [loc EXCEPT
                     !.surface_config = Some(config),
                     !.surface = Some([Unwrap(loc.surface) EXCEPT
                                         !.config = Some(config)])]
    /\ configureCalls' = configureCalls + 1
    /\ sizeInForce' = inner_size
    /\ pc' = "resumed_buffer"
    /\ UNCHANGED << app, output, encoder, submitted, presented, created,
                    redrawRequests, redrawPending, exiting, mainResult,
                    delivered, resumesLeft, lastEvent, repeated, frameLog, acquireFailed >>

\* device.create_buffer_init with the triangle, usage VERTEX.
CreateVertexBuffer ==
    /\ pc = "resumed_buffer"
    /\ loc' = [loc EXCEPT
                 !.vertices_buffer = Some([id |-> Count("buffer") + 1,
                                           device |-> Unwrap(loc.device),
                                           contents |-> Triangle,
                                           usage |-> "VERTEX"])]
    /\ created' = Bump("buffer")
    /\ pc' = "resumed_pipeline"
    /\ UNCHANGED << app, output, encoder, submitted, presented, configureCalls,
                    redrawRequests, redrawPending, exiting, mainResult,
                    delivered, resumesLeft, lastEvent, repeated, frameLog, acquireFailed,
                    sizeInForce >>

\* Mutation of CreatePipeline: the target format is written out as a
\* literal instead of being taken from surface_config.
CreatePipelineFixedFormat(ok) ==
    /\ pc = "resumed_pipeline"
    /\ IF ~ok
       THEN /\ Panic
            /\ UNCHANGED << loc, created >>
       ELSE /\ pc' = "resumed_store"
            /\ loc' = [loc EXCEPT
                         !.pipeline =
                            Some([id |-> Count("pipeline") + 1,
                                  device |-> Unwrap(loc.device),
                                  vertex_entry |-> "vs_main",
                                  fragment_entry |-> "fs_main",
                                  attributes |-> <<"Float32x2", "Float32x3">>,
                                  target_format |-> "Bgra8UnormSrgb"])]
            /\ created' = Bump("pipeline")
            /\ UNCHANGED mainResult
    /\ UNCHANGED << app, output, encoder, submitted, presented, configureCalls,
                    redrawRequests, redrawPending, exiting, delivered,
                    resumesLeft, lastEvent, repeated, frameLog, acquireFailed,
                    sizeInForce >>

\* create_pipeline_layout, create_shader_module, create_render_pipeline.
\* A shader or pipeline validation error is a panic (no error scope is set).
CreatePipeline(ok) ==
    /\ pc = "resumed_pipeline"
    /\ IF ~ok
       THEN /\ Panic
            /\ UNCHANGED << loc, created >>
       ELSE /\ pc' = "resumed_store"
            /\ loc' = [loc EXCEPT
                         !.pipeline =
                            Some([id |-> Count("pipeline") + 1,
                                  device |-> Unwrap(loc.device),
                                  vertex_entry |-> "vs_main",
                                  fragment_entry |-> "fs_main",
                                  attributes |-> <<"Float32x2", "Float32x3">>,
                                  target_format |->
                                      Unwrap(loc.surface_config).format])]
            /\ created' = Bump("pipeline")
            /\ UNCHANGED mainResult
    /\ UNCHANGED << app, output, encoder, submitted, presented, configureCalls,
                    redrawRequests, redrawPending, exiting, delivered,
                    resumesLeft, lastEvent, repeated, frameLog, acquireFailed,
                    sizeInForce >>

\* self.app = Some(Application { .. }) and return to the loop.
StoreApp ==
    /\ pc = "resumed_store"
    /\ app' = Some([ window |-> Unwrap(loc.window),
                     surface |-> Unwrap(loc.surface),
                     surface_config |-> Unwrap(loc.surface_config),
                     device |-> Unwrap(loc.device),
                     queue |-> Unwrap(loc.queue),
                     vertices_buffer |-> Unwrap(loc.vertices_buffer),
                     pipeline |-> Unwrap(loc.pipeline) ])
    /\ loc' = NoLocals
    /\ pc' = "idle"
    /\ UNCHANGED << output, encoder, submitted, presented, created,
                    configureCalls, redrawRequests, redrawPending, exiting,
                    mainResult, delivered, resumesLeft, lastEvent, repeated, frameLog,
                    acquireFailed, sizeInForce >>

\* ----------------------------------------------------------- window_event
\* The window events the loop may deliver.  Events other than the three the
\* handler matches are one kind, "Other".
WindowEvents ==
    { Event(kind, id, 0, 0) :
        kind \in {"CloseRequested", "RedrawRequested", "Other"}, id \in WindowIds }
    \cup { Event("Resized", id, w, h) : id \in WindowIds, w \in Dims, h \in Dims }

\* `if let Some(Application { .. }) = &mut self.app` and
\* `if window.id() != window_id { return; }` both let the event through.
Reaches(ev) ==
    /\ IsSome(app)
    /\ Unwrap(app).window.id = ev.window_id

\* Mutation of WindowEventBeforeActivation: CloseRequested is matched
\* outside the if-let, so it exits the loop without an Application.
WindowEventBeforeActivationExiting(ev) ==
    /\ IsNone(app)
    /\ Deliver(ev)
    /\ exiting' = (ev.kind = "CloseRequested")
    /\ UNCHANGED << pc, app, loc, output, encoder, submitted, presented,
                    created, configureCalls, redrawRequests, redrawPending,
                    mainResult, resumesLeft, frameLog, acquireFailed,
                    sizeInForce >>

\* window_event() with self.app == None: the if-let does not match.
WindowEventBeforeActivation(ev) ==
    /\ IsNone(app)
    /\ Deliver(ev)
    /\ UNCHANGED << pc, app, loc, output, encoder, submitted, presented,
                    created, configureCalls, redrawRequests, redrawPending,
                    exiting, mainResult, resumesLeft, frameLog, acquireFailed,
                    sizeInForce >>

\* Mutation of WindowEventOtherWindow: CloseRequested is matched before the
\* window id is compared, so any window's close-request exits the loop.
WindowEventOtherWindowExiting(ev) ==
    /\ IsSome(app)
    /\ Unwrap(app).window.id # ev.window_id
    /\ Deliver(ev)
    /\ exiting' = (ev.kind = "CloseRequested")
    /\ UNCHANGED << pc, app, loc, output, encoder, submitted, presented,
                    created, configureCalls, redrawRequests, redrawPending,
                    mainResult, resumesLeft, frameLog, acquireFailed,
                    sizeInForce >>

\* window_event() for another window: early return.
WindowEventOtherWindow(ev) ==
    /\ IsSome(app)
    /\ Unwrap(app).window.id # ev.window_id
    /\ Deliver(ev)
    /\ UNCHANGED << pc, app, loc, output, encoder, submitted, presented,
                    created, configureCalls, redrawRequests, redrawPending,
                    exiting, mainResult, resumesLeft, frameLog, acquireFailed,
                    sizeInForce >>

\* The `_ => ()` arm.
OtherWindowEvent(ev) ==
    /\ ev.kind = "Other"
    /\ Reaches(ev)
    /\ Deliver(ev)
    /\ UNCHANGED << pc, app, loc, output, encoder, submitted, presented,
                    created, configureCalls, redrawRequests, redrawPending,
                    exiting, mainResult, resumesLeft, frameLog, acquireFailed,
                    sizeInForce >>

\* Mutation of CloseRequested: the arm does not call event_loop.exit().
CloseRequestedNoExit(ev) ==
    /\ ev.kind = "CloseRequested"
    /\ Reaches(ev)
    /\ Deliver(ev)
    /\ UNCHANGED << pc, app, loc, output, encoder, submitted, presented,
                    created, configureCalls, redrawRequests, redrawPending,
                    exiting, mainResult, resumesLeft, frameLog, acquireFailed,
                    sizeInForce >>

\* The CloseRequested arm: event_loop.exit().
CloseRequested(ev) ==
    /\ ev.kind = "CloseRequested"
    /\ Reaches(ev)
    /\ Deliver(ev)
    /\ exiting' = TRUE
    /\ UNCHANGED << pc, app, loc, output, encoder, submitted, presented,
                    created, configureCalls, redrawRequests, redrawPending,
                    mainResult, resumesLeft, frameLog, acquireFailed,
                    sizeInForce >>

\* Mutation of ResizeAccepted: `||` in place of `&&`.
ResizeAcceptedEither(new_size) ==
    new_size[1] > 0 \/ new_size[2] > 0

\* `if new_size.width > 0 && new_size.height > 0`
ResizeAccepted(new_size) ==
    new_size[1] > 0 /\ new_size[2] > 0

\* Mutation of Reconfigure: surface.configure is called before the two
\* assignments, so the surface gets the configuration as it was.
ReconfigureStale(a, new_size) ==
    [a EXCEPT !.surface_config = [a.surface_config EXCEPT
                                    !.width = new_size[1],
                                    !.height = new_size[2]],
              !.surface.config = Some(a.surface_config)]

\* Mutation of Reconfigure: width and height are assigned crosswise.
ReconfigureTransposed(a, new_size) ==
    LET config == [a.surface_config EXCEPT !.width = new_size[2],
                                           !.height = new_size[1]]
    IN  [a EXCEPT !.surface_config = config,
                  !.surface.config = Some(config)]

\* Mutation of Reconfigure: the surface.configure call is missing.
ReconfigureStoredOnly(a, new_size) ==
    [a EXCEPT !.surface_config = [a.surface_config EXCEPT
                                    !.width = new_size[1],
                                    !.height = new_size[2]]]

\* The body of the Resized arm's if, on the Application `a`: the two
\* assignments, then surface.configure(device, surface_config).
Reconfigure(a, new_size) ==
    LET config == [a.surface_config EXCEPT !.width = new_size[1],
                                           !.height = new_size[2]]
    IN  [a EXCEPT !.surface_config = config,
                  !.surface.config = Some(config)]

\* The Resized arm.
Resized(ev) ==
    /\ ev.kind = "Resized"
    /\ Reaches(ev)
    /\ Deliver(ev)
    /\ LET new_size == << ev.width, ev.height >>
       IN  IF ResizeAccepted(new_size)
           THEN /\ app' = Some(Reconfigure(Unwrap(app), new_size))
                /\ configureCalls' = configureCalls + 1
           ELSE UNCHANGED << app, configureCalls >>
    /\ sizeInForce' = IF ev.width # 0 /\ ev.height # 0
                      THEN << ev.width, ev.height >>
                      ELSE sizeInForce
    /\ UNCHANGED << pc, loc, output, encoder, submitted, presented, created,
                    redrawRequests, redrawPending, exiting, mainResult,
                    resumesLeft, frameLog, acquireFailed >>

\* Mutation of RedrawRequested: a failed acquisition skips the frame and
\* returns to the loop instead of panicking.
RedrawRequestedSkipping(ev, acquired) ==
    /\ ev.kind = "RedrawRequested"
    /\ Reaches(ev)
    /\ Deliver(ev)
    /\ redrawPending' = FALSE
    /\ LET surface == Unwrap(app).surface
       IN  IF acquired /\ IsSome(surface.config)
           THEN /\ output' = Some([ frame |-> Count("texture") + 1,
                                    surface |-> surface.window,
                                    width |-> Unwrap(surface.config).width,
                                    height |-> Unwrap(surface.config).height ])
                /\ created' = Bump("texture")
                /\ frameLog' = << "acquire" >>
                /\ pc' = "acquired"
                /\ UNCHANGED acquireFailed
           ELSE /\ acquireFailed' = TRUE
                /\ frameLog' = << >>
                /\ UNCHANGED << pc, output, created >>
    /\ UNCHANGED << app, loc, encoder, submitted, presented, configureCalls,
                    redrawRequests, exiting, mainResult, resumesLeft,
                    sizeInForce >>

\* The RedrawRequested arm, entry: surface.get_current_texture().unwrap().
\* `acquired` is whether the surface hands out an image; the image has the
\* size of the configuration applied to the surface.
RedrawRequested(ev, acquired) ==
    /\ ev.kind = "RedrawRequested"
    /\ Reaches(ev)
    /\ Deliver(ev)
    /\ redrawPending' = FALSE
    /\ LET surface == Unwrap(app).surface
       IN  IF acquired /\ IsSome(surface.config)
           THEN /\ output' = Some([ frame |-> Count("texture") + 1,
                                    surface |-> surface.window,
                                    width |-> Unwrap(surface.config).width,
                                    height |-> Unwrap(surface.config).height ])
                /\ created' = Bump("texture")
                /\ frameLog' = << "acquire" >>
                /\ pc' = "acquired"
                /\ UNCHANGED << mainResult, acquireFailed >>
           ELSE /\ Panic
                /\ acquireFailed' = TRUE
                /\ frameLog' = << >>
                /\ UNCHANGED << output, created >>
    /\ UNCHANGED << app, loc, encoder, submitted, presented, configureCalls,
                    redrawRequests, exiting, resumesLeft, sizeInForce >>

\* create_view, create_command_encoder and encoder.begin_render_pass with
\* one color attachment, load Clear(BLACK), store Store.
BeginRenderPass ==
    /\ pc = "acquired"
    /\ encoder' = Some([ frame |-> Unwrap(output).frame,
                         device |-> Unwrap(app).device,
                         passes |-> << [ view |-> Unwrap(output).frame,
                                         load |-> "Clear",
                                         clear_color |-> ColorBLACK,
                                         store |-> "Store",
                                         commands |-> << >>,
                                         ended |-> FALSE ] >> ])
    /\ created' = Bump("encoder")
    /\ frameLog' = Append(frameLog, "begin_render_pass")
    /\ pc' = "recording"
    /\ UNCHANGED << app, loc, output, submitted, presented, configureCalls,
                    redrawRequests, redrawPending, exiting, mainResult,
                    delivered, resumesLeft, lastEvent, repeated, acquireFailed,
                    sizeInForce >>

\* Mutation of PassCommands: the two ranges of draw are given crosswise.
PassCommandsSwapped(a) ==
    << [ op |-> "set_pipeline", args |-> << a.pipeline.id >> ],
       [ op |-> "set_vertex_buffer", args |-> << 0, a.vertices_buffer.id >> ],
       [ op |-> "draw", args |-> << 0, 1, 0, 3 >> ] >>

\* The commands the pass records: set_pipeline(pipeline),
\* set_vertex_buffer(0, vertices_buffer.slice(..)), draw(0..3, 0..1).
\* A range a..b is <<a, b>>.
PassCommands(a) ==
    << [ op |-> "set_pipeline", args |-> << a.pipeline.id >> ],
       [ op |-> "set_vertex_buffer", args |-> << 0, a.vertices_buffer.id >> ],
       [ op |-> "draw", args |-> << 0, 3, 0, 1 >> ] >>

RecordDraw ==
    /\ pc = "recording"
    /\ encoder' = Some([Unwrap(encoder) EXCEPT
                          !.passes[1].commands = @ \o PassCommands(Unwrap(app))])
    /\ frameLog' = Append(frameLog, "draw")
    /\ pc' = "drawn"
    /\ UNCHANGED << app, loc, output, submitted, presented, created,
                    configureCalls, redrawRequests, redrawPending, exiting,
                    mainResult, delivered, resumesLeft, lastEvent, repeated,
                    acquireFailed, sizeInForce >>

\* Mutation of EndRenderPass: the pass is still open when the encoder is
\* finished.
EndRenderPassOmitted ==
    /\ pc = "drawn"
    /\ frameLog' = Append(frameLog, "end_render_pass")
    /\ pc' = "pass_ended"
    /\ UNCHANGED << app, loc, output, encoder, submitted, presented, created,
                    configureCalls, redrawRequests, redrawPending, exiting,
                    mainResult, delivered, resumesLeft, lastEvent, repeated,
                    acquireFailed, sizeInForce >>

\* The closing brace of the inner block: render_pass is dropped, which ends
\* the pass.
EndRenderPass ==
    /\ pc = "drawn"
    /\ encoder' = Some([Unwrap(encoder) EXCEPT !.passes[1].ended = TRUE])
    /\ frameLog' = Append(frameLog, "end_render_pass")
    /\ pc' = "pass_ended"
    /\ UNCHANGED << app, loc, output, submitted, presented, created,
                    configureCalls, redrawRequests, redrawPending, exiting,
                    mainResult, delivered, resumesLeft, lastEvent, repeated,
                    acquireFailed, sizeInForce >>

\* Mutation of Submit: the finished command list is dropped, not submitted.
SubmitDropped ==
    /\ pc = "pass_ended"
    /\ encoder' = None
    /\ frameLog' = Append(frameLog, "submit")
    /\ pc' = "submitted"
    /\ UNCHANGED << app, loc, output, submitted, presented, created,
                    configureCalls, redrawRequests, redrawPending, exiting,
                    mainResult, delivered, resumesLeft, lastEvent, repeated,
                    acquireFailed, sizeInForce >>

\* queue.submit(std::iter::once(encoder.finish())): the encoder is consumed.
Submit ==
    /\ pc = "pass_ended"
    /\ submitted' = Append(submitted, [ queue |-> Unwrap(app).queue,
                                        frame |-> Unwrap(encoder).frame,
                                        passes |-> Unwrap(encoder).passes ])
    /\ encoder' = None
    /\ frameLog' = Append(frameLog, "submit")
    /\ pc' = "submitted"
    /\ UNCHANGED << app, loc, output, presented, created, configureCalls,
                    redrawRequests, redrawPending, exiting, mainResult,
                    delivered, resumesLeft, lastEvent, repeated, acquireFailed,
                    sizeInForce >>

\* Mutation of Present: the surface texture is dropped without present().
PresentOmitted ==
    /\ pc = "submitted"
    /\ output' = None
    /\ frameLog' = Append(frameLog, "present")
    /\ pc' = "presented"
    /\ UNCHANGED << app, loc, encoder, submitted, presented, created,
                    configureCalls, redrawRequests, redrawPending, exiting,
                    mainResult, delivered, resumesLeft, lastEvent, repeated,
                    acquireFailed, sizeInForce >>

\* output.present(): the surface texture is consumed.
Present ==
    /\ pc = "submitted"
    /\ presented' = Append(presented, Unwrap(output).frame)
    /\ output' = None
    /\ frameLog' = Append(frameLog, "present")
    /\ pc' = "presented"
    /\ UNCHANGED << app, loc, encoder, submitted, created, configureCalls,
                    redrawRequests, redrawPending, exiting, mainResult,
                    delivered, resumesLeft, lastEvent, repeated, acquireFailed,
                    sizeInForce >>

\* Mutation of RequestRedraw: the handler returns without the call.
RequestRedrawOmitted ==
    /\ pc = "presented"
    /\ frameLog' = Append(frameLog, "request_redraw")
    /\ pc' = "idle"
    /\ UNCHANGED << app, loc, output, encoder, submitted, presented, created,
                    configureCalls, redrawRequests, redrawPending, exiting,
                    mainResult, delivered, resumesLeft, lastEvent, repeated,
                    acquireFailed, sizeInForce >>

\* window.request_redraw(), then the handler returns.
RequestRedraw ==
    /\ pc = "presented"
    /\ redrawRequests' = redrawRequests + 1
    /\ redrawPending' = TRUE
    /\ frameLog' = Append(frameLog, "request_redraw")
    /\ pc' = "idle"
    /\ UNCHANGED << app, loc, output, encoder, submitted, presented, created,
                    configureCalls, exiting, mainResult, delivered,
                    resumesLeft, lastEvent, repeated, acquireFailed, sizeInForce >>

\* -------------------------------------------------------------------- main
\* event_loop.run_app(&mut state)? returns once exit has been requested,
\* and main returns Ok(()).
MainReturn ==
    /\ pc = "idle"
    /\ exiting
    /\ mainResult = "running"
    /\ pc' = "returned"
    /\ mainResult' = "Ok"
    /\ UNCHANGED << app, loc, output, encoder, submitted, presented, created,
                    configureCalls, redrawRequests, redrawPending, exiting,
                    delivered, resumesLeft, lastEvent, repeated, frameLog, acquireFailed,
                    sizeInForce >>

\* The exit code of the process.
ExitCode ==
    IF mainResult = "Ok" THEN 0 ELSE 101

\* -------------------------------------------------------------------- Next
AdapterChoices == { None } \cup { Some(f) : f \in CapabilityFormats }

Next ==
    \/ \E fail \in {"none", "create_window", "create_surface"} : Resumed(fail)
    \/ \E found \in AdapterChoices : RequestAdapter(found)
    \/ \E ok \in BOOLEAN : RequestDevice(ok)
    \/ \E inner_size \in Dims \X Dims : ConfigureSurface(inner_size)
    \/ CreateVertexBuffer
    \/ \E ok \in BOOLEAN : CreatePipeline(ok)
    \/ StoreApp
    \/ \E ev \in WindowEvents : WindowEventBeforeActivation(ev)
    \/ \E ev \in WindowEvents : WindowEventOtherWindow(ev)
    \/ \E ev \in WindowEvents : OtherWindowEvent(ev)
    \/ \E ev \in WindowEvents : CloseRequested(ev)
    \/ \E ev \in WindowEvents : Resized(ev)
    \/ \E ev \in WindowEvents, acquired \in BOOLEAN : RedrawRequested(ev, acquired)
    \/ BeginRenderPass
    \/ RecordDraw
    \/ EndRenderPass
    \/ Submit
    \/ Present
    \/ RequestRedraw
    \/ MainReturn

Spec == Init /\ [][Next]_vars

\* ------------------------------------------------------------------ claims
\* Helpers of the claims: the step just taken delivered an event to
\* window_event, and the event got past both early exits.
Delivers(kind) ==
    /\ delivered' = delivered + 1
    /\ lastEvent'.kind = kind

DeliversToApp(kind) ==
    /\ Delivers(kind)
    /\ IsSome(app)
    /\ Unwrap(app).window.id = lastEvent'.window_id

\* C1 -- Frame ordering: the k-th command list on the queue is that of the
\* k-th acquired frame, and the encoder of frame k+1 is created only once
\* the command lists of frames 1..k have all been submitted.
FrameOrdering ==
    /\ [](\A i \in 1..Len(submitted) : submitted[i].frame = i)
    /\ [][ created'.encoder # created.encoder
             => /\ created'.encoder = Len(submitted) + 1
                /\ Unwrap(encoder').frame = Len(submitted) + 1
                /\ Unwrap(output).frame = Len(submitted) + 1 ]_vars

\* Witness of C1: the third frame is being recorded and the queue holds the
\* first two, in order.
FrameOrderingWitness ==
    /\ pc = "recording"
    /\ Unwrap(output).frame = 3
    /\ Len(submitted) = 2
    /\ submitted[1].frame = 1
    /\ submitted[2].frame = 2

\* The steps of one RedrawRequested arm, in the order of the code.
FrameSteps ==
    << "acquire", "begin_render_pass", "draw", "end_render_pass", "submit",
       "present", "request_redraw" >>

\* How many of the steps the running arm has taken at the thread's
\* position; between handlers, those of the last arm (none if its
\* acquisition failed).
StepsTaken ==
    CASE pc = "acquired" -> 1
      [] pc = "recording" -> 2
      [] pc = "drawn" -> 3
      [] pc = "pass_ended" -> 4
      [] pc = "submitted" -> 5
      [] pc = "presented" -> 6
      [] OTHER -> IF acquireFailed \/ created.texture = 0 THEN 0 ELSE 7

\* C2 -- Within one handled RedrawRequested the steps acquire, begin pass,
\* draw, end pass, submit, present, request redraw happen once each in that
\* order; every submitted command list has its render pass ended, and every
\* presented frame has been submitted before.
FrameStepOrder ==
    /\ frameLog = SubSeq(FrameSteps, 1, StepsTaken)
    /\ \A i \in 1..Len(submitted) :
          \A j \in 1..Len(submitted[i].passes) : submitted[i].passes[j].ended
    /\ \A i \in 1..Len(presented) :
          /\ i <= Len(submitted)
          /\ submitted[i].frame = presented[i]
    /\ pc \in {"submitted", "presented"} => IsNone(encoder)
    /\ Len(submitted) - Len(presented) = (IF pc = "submitted" THEN 1 ELSE 0)

\* Witness of C2: a handled RedrawRequested has returned to the loop.
FrameStepOrderWitness ==
    /\ pc = "idle"
    /\ frameLog = FrameSteps
    /\ Len(submitted) = 1
    /\ presented = << 1 >>

\* C3 -- Zero-dimension guard: a Resized event with width 0 or height 0,
\* handled after activation, changes no field of the Application (stored
\* configuration and surface included) and calls configure not at all.
ZeroDimensionGuard ==
    [][ ( /\ DeliversToApp("Resized")
          /\ (lastEvent'.width = 0 \/ lastEvent'.height = 0) )
        => /\ app' = app
           /\ configureCalls' = configureCalls ]_vars

\* Witness of C3: a Resized with one zero dimension has been handled after
\* an accepted one.
ZeroDimensionGuardWitness ==
    /\ IsSome(app)
    /\ lastEvent = Event("Resized", Unwrap(app).window.id, 0, 2)
    /\ configureCalls = 2
    /\ Unwrap(app).surface_config.width > 0

\* The accepted Resized event (w, h) for the application's window.
AcceptedResize(ev) ==
    /\ ev.kind = "Resized"
    /\ ev.width > 0
    /\ ev.height > 0
    /\ IsSome(app)
    /\ Unwrap(app).window.id = ev.window_id

\* C4 -- Resize idempotence: when Resized(w, h) with w, h > 0 has just been
\* handled and the same event is handled again, the stored configuration
\* and the configuration applied to the surface are what they were after
\* the first.
ResizeIdempotence ==
    [][ ( /\ AcceptedResize(lastEvent)
          /\ delivered' = delivered + 1
          /\ lastEvent' = lastEvent )
        => /\ Unwrap(app').surface_config = Unwrap(app).surface_config
           /\ Unwrap(app').surface.config = Unwrap(app).surface.config ]_vars

\* Witness of C4: the same accepted Resized has been handled twice in a row,
\* after an earlier accepted Resized.
ResizeIdempotenceWitness ==
    /\ AcceptedResize(lastEvent)
    /\ repeated
    /\ configureCalls = 4
    /\ delivered = 4

\* The fields of a configuration other than width and height.
NonSizeFields(config) ==
    [ usage |-> config.usage,
      format |-> config.format,
      present_mode |-> config.present_mode,
      alpha_mode |-> config.alpha_mode,
      desired_maximum_frame_latency |-> config.desired_maximum_frame_latency,
      view_formats |-> config.view_formats ]

\* C5 -- An accepted Resized(w, h) sets the stored width to w and height to
\* h, applies the stored configuration to the surface in the same handler
\* and leaves the other fields alone; usage, present mode, alpha mode and
\* frame latency have their activation values in every state, and the
\* format is the first one an adapter reported, that of the pipeline.
ResizeSetsSizeOnly ==
    /\ [][ ( /\ DeliversToApp("Resized")
             /\ lastEvent'.width > 0
             /\ lastEvent'.height > 0 )
           => /\ Unwrap(app').surface_config.width = lastEvent'.width
              /\ Unwrap(app').surface_config.height = lastEvent'.height
              /\ NonSizeFields(Unwrap(app').surface_config)
                   = NonSizeFields(Unwrap(app).surface_config)
              /\ Unwrap(app').surface.config = Some(Unwrap(app').surface_config)
              /\ configureCalls' = configureCalls + 1 ]_vars
    /\ [](IsSome(app)
            => LET config == Unwrap(app).surface_config
               IN  /\ config.usage = "RENDER_ATTACHMENT"
                   /\ config.present_mode = "AutoVsync"
                   /\ config.alpha_mode = "Auto"
                   /\ config.desired_maximum_frame_latency = 2
                   /\ config.view_formats = << >>
                   /\ config.format \in { f[1] : f \in CapabilityFormats }
                   /\ config.format = Unwrap(app).pipeline.target_format)

\* Witness of C5: Resized(2, 1) has been handled after a frame, and the
\* stored and the applied configuration are 2 by 1.
ResizeSetsSizeOnlyWitness ==
    /\ AcceptedResize(lastEvent)
    /\ lastEvent.width = 2
    /\ lastEvent.height = 1
    /\ Len(presented) = 1
    /\ Unwrap(app).surface_config.width = 2
    /\ Unwrap(app).surface_config.height = 1
    /\ Unwrap(app).surface.config = Some(Unwrap(app).surface_config)

\* C6 -- Every acquired image has the size in force (that of the last
\* accepted Resized, else the window's size at activation), and between
\* handlers the configuration applied to the surface has that size, so a
\* Resized with a zero dimension changes neither.
FrameSizeInForce ==
    /\ IsSome(output)
         => << Unwrap(output).width, Unwrap(output).height >> = sizeInForce
    /\ IsSome(app)
         => LET applied == Unwrap(Unwrap(app).surface.config)
            IN  << applied.width, applied.height >> = sizeInForce

\* Witness of C6: the second frame is acquired at 1 by 2 after an accepted
\* Resized(1, 2) that followed the first frame.
FrameSizeInForceWitness ==
    /\ IsSome(output)
    /\ Unwrap(output).frame = 2
    /\ configureCalls = 2
    /\ sizeInForce = << 1, 2 >>
    /\ Unwrap(output).width = 1
    /\ Unwrap(output).height = 2
    /\ delivered = 4

\* The draw commands of a pass.
Draws(pass) ==
    { i \in 1..Len(pass.commands) : pass.commands[i].op = "draw" }

\* C7 -- Draw call shape: every submitted frame has one render pass, which
\* clears to black and records, after binding the pipeline and the vertex
\* buffer at slot 0, one non-indexed draw of 3 vertices and 1 instance;
\* every acquired frame that is past its submit step has one command list.
DrawCallShape ==
    /\ \A i \in 1..Len(submitted) :
          /\ Len(submitted[i].passes) = 1
          /\ LET pass == submitted[i].passes[1]
                 cmds == pass.commands
             IN  /\ pass.load = "Clear"
                 /\ pass.clear_color = << 0, 0, 0, 1 >>
                 /\ pass.view = submitted[i].frame
                 /\ Cardinality(Draws(pass)) = 1
                 /\ \A d \in Draws(pass) :
                       /\ cmds[d].args[2] - cmds[d].args[1] = 3
                       /\ cmds[d].args[4] - cmds[d].args[3] = 1
                       /\ \E p \in 1..(d - 1) :
                             /\ cmds[p].op = "set_pipeline"
                             /\ cmds[p].args = << Unwrap(app).pipeline.id >>
                       /\ \E b \in 1..(d - 1) :
                             /\ cmds[b].op = "set_vertex_buffer"
                             /\ cmds[b].args
                                  = << 0, Unwrap(app).vertices_buffer.id >>
    /\ Len(submitted) = created.texture
                          - (IF IsSome(output) /\ pc # "submitted" THEN 1 ELSE 0)

\* Witness of C7: two frames have been submitted.
DrawCallShapeWitness ==
    /\ Len(submitted) = 2
    /\ pc = "idle"

CloseHandled ==
    /\ lastEvent.kind = "CloseRequested"
    /\ IsSome(app)
    /\ Unwrap(app).window.id = lastEvent.window_id

AcquisitionFailureFatal ==
    /\ [](acquireFailed
            => /\ pc = "aborted"
               /\ mainResult = "panicked"
               /\ IsNone(output)
               /\ IsNone(encoder)
               /\ created.encoder = created.texture
               /\ Len(submitted) = created.texture
               /\ Len(presented) = created.texture
               /\ redrawRequests = created.texture
               /\ lastEvent.kind = "RedrawRequested")
    /\ [][ acquireFailed' /\ ~acquireFailed
             => /\ Delivers("RedrawRequested")
                /\ UNCHANGED << app, configureCalls, created, submitted,
                                presented, redrawRequests, encoder, output >> ]_vars
    /\ [][ acquireFailed => UNCHANGED vars ]_vars

\* Witness of C10: the acquisition of the second frame has failed.
AcquisitionFailureFatalWitness ==
    /\ acquireFailed
    /\ pc = "aborted"
    /\ Len(presented) = 1
    /\ created.texture = 1

\* ------------------------------------------------- repeated activation
\* The start of a run on a platform that delivers the activation again
\* after a suspension (resumed() is the handler of every one of them): as
\* Init, with two activations to come.
InitReactivation ==
    /\ pc = "idle"
    /\ app = None
    /\ loc = NoLocals
    /\ output = None
    /\ encoder = None
    /\ submitted = << >>
    /\ presented = << >>
    /\ created = [ window |-> 0, surface |-> 0, device |-> 0, queue |-> 0,
                   buffer |-> 0, pipeline |-> 0, texture |-> 0, encoder |-> 0 ]
    /\ configureCalls = 0
    /\ redrawRequests = 0
    /\ redrawPending = FALSE
    /\ exiting = FALSE
    /\ mainResult = "running"
    /\ delivered = 0
    /\ resumesLeft = 1 + 1
    /\ lastEvent = NoEvent
    /\ repeated = FALSE
    /\ frameLog = << >>
    /\ acquireFailed = FALSE
    /\ sizeInForce = << 0, 0 >>

SpecReactivation == InitReactivation /\ [][Next]_vars

\* C11 -- The device, the queue, the vertex buffer and the pipeline are
\* each created once: no delivered event, a further activation included,
\* creates a second one or replaces the one the Application holds.
CreatedOnce ==
    /\ created.device <= 1
    /\ created.queue <= 1
    /\ created.buffer <= 1
    /\ created.pipeline <= 1
    /\ IsSome(app)
         => /\ Unwrap(app).device = 1
            /\ Unwrap(app).queue = 1
            /\ Unwrap(app).vertices_buffer.id = 1
            /\ Unwrap(app).pipeline.id = 1

\* resumed() is running.
InResumed ==
    pc \in { "resumed_adapter", "resumed_device", "resumed_configure",
             "resumed_buffer", "resumed_pipeline", "resumed_store" }

\* C12 -- Activation builds in dependency order: the surface is configured
\* only with the device and queue obtained, the vertex buffer is created
\* only with the surface configured, the pipeline only with the vertex
\* buffer created, and the Application is present only once all four exist
\* (never while resumed() is still running).
ConstructionOrder ==
    /\ configureCalls >= 1 => created.device >= 1 /\ created.queue >= 1
    /\ created.buffer >= 1 => configureCalls >= 1
    /\ created.pipeline >= 1 => created.buffer >= 1
    /\ InResumed
         => /\ IsNone(app)
            /\ IsSome(loc.surface_config)
                 => /\ IsSome(loc.device)
                    /\ IsSome(loc.queue)
                    /\ Unwrap(loc.surface).config = loc.surface_config
            /\ IsSome(loc.vertices_buffer) => IsSome(loc.surface_config)
            /\ IsSome(loc.pipeline) => IsSome(loc.vertices_buffer)
            /\ pc = "resumed_store" => IsSome(loc.pipeline)
    /\ IsSome(app)
         => /\ created.device >= 1
            /\ created.queue >= 1
            /\ configureCalls >= 1
            /\ created.buffer >= 1
            /\ created.pipeline >= 1
            /\ IsSome(Unwrap(app).surface.config)

\* Witness of C12: resumed() has returned with the Application stored.
ConstructionOrderWitness ==
    /\ pc = "idle"
    /\ IsSome(app)
    /\ delivered = 1
    /\ lastEvent.kind = "Resumed"
    /\ created.pipeline = 1

\* ----------------------------------------------------------- liveness
\* The loop delivers a requested redraw to the application's window, and
\* the surface hands out an image.
RequestedRedraw ==
    /\ redrawPending
    /\ \E ev \in WindowEvents : RedrawRequested(ev, TRUE)

\* The thread runs on through the RedrawRequested arm.
FrameStep ==
    \/ BeginRenderPass
    \/ RecordDraw
    \/ EndRenderPass
    \/ Submit
    \/ Present
    \/ RequestRedraw

\* Spec under the assumptions of the render loop: a requested redraw is
\* delivered while the loop still delivers, and a running handler runs on.
FairSpec ==
    /\ Init
    /\ [][Next]_vars
    /\ WF_vars(RequestedRedraw)
    /\ WF_vars(FrameStep)

\* The render loop has been ended: by a handled close-request, by a failed
\* acquisition, or by the bound on the events of a run.
LoopEnded ==
    \/ exiting
    \/ acquireFailed
    \/ delivered >= MaxEvents

\* C13 -- Continuous render loop: once a frame is presented, the next frame
\* is acquired, unless a close-request is handled or an acquisition fails
\* first (or the run's events are used up), and every acquired frame is
\* presented; no other event, a Resized of any size included, stops the
\* frames.
ContinuousRenderLoop ==
    /\ (pc = "presented") ~> (pc = "acquired" \/ LoopEnded)
    /\ (pc = "acquired") ~> (pc = "presented")

\* Witness of C13: a second frame has been presented, with an event that
\* configured nothing handled before or between the two frames, events
\* left and no close-request handled.
ContinuousRenderLoopWitness ==
    /\ Len(presented) = 2
    /\ configureCalls = 1
    /\ delivered = 4
    /\ pc = "presented"
    /\ ~LoopEnded

\* C14 -- In every state after activation the pipeline's color target
\* format is the format of the configuration applied to the surface (and
\* of the stored one); the format is fixed when resumed() configures the
\* surface, as the first format the adapter reports, and no step changes
\* it afterwards.
PipelineFormatMatchesSurface ==
    /\ [](IsSome(app)
            => /\ Unwrap(app).pipeline.target_format
                    = Unwrap(Unwrap(app).surface.config).format
               /\ Unwrap(app).pipeline.target_format
                    = Unwrap(app).surface_config.format)
    /\ [][ pc = "resumed_configure" /\ pc' = "resumed_buffer"
             => Unwrap(Unwrap(loc'.surface).config).format
                  = Unwrap(loc.adapter).formats[1] ]_vars
    /\ [][ IsSome(app) /\ IsSome(app')
             => Unwrap(Unwrap(app').surface.config).format
                  = Unwrap(Unwrap(app).surface.config).format ]_vars

\* Witness of C14: a frame is presented after an accepted Resized, on an
\* adapter whose first format is Rgba8UnormSrgb.
PipelineFormatMatchesSurfaceWitness ==
    /\ IsSome(app)
    /\ Len(presented) = 1
    /\ configureCalls = 2
    /\ Unwrap(app).pipeline.target_format = "Rgba8UnormSrgb"
    /\ Unwrap(Unwrap(app).surface.config).format = "Rgba8UnormSrgb"

\* No handler is running.
BetweenHandlers ==
    pc \in { "idle", "returned", "aborted" }

\* C15 -- No frame outlives its handler: between handlers no acquired image
\* (and no encoder) is outstanding and every image acquired so far has been
\* presented, once and in the order acquired; inside the RedrawRequested
\* arm only the image it acquired is outstanding, so there is never more
\* than one.
FrameNotRetained ==
    /\ BetweenHandlers
         => /\ IsNone(output)
            /\ IsNone(encoder)
            /\ Len(presented) = created.texture
    /\ \A i \in 1..Len(presented) : presented[i] = i
    /\ created.texture - Len(presented) = (IF IsSome(output) THEN 1 ELSE 0)
    /\ IsSome(output)
         => /\ Unwrap(output).frame = created.texture
            /\ lastEvent.kind = "RedrawRequested"
            /\ pc \in { "acquired", "recording", "drawn", "pass_ended",
                        "submitted" }

\* Witness of C15: the loop is between handlers after two frames.
FrameNotRetainedWitness ==
    /\ pc = "idle"
    /\ created.texture = 2
    /\ presented = << 1, 2 >>
    /\ IsNone(output)

\* The program has panicked inside resumed().
PanickedInActivation ==
    /\ mainResult = "panicked"
    /\ ~acquireFailed

\* The step just taken ended the program by a panic, the Application absent.
PanicsAbsent ==
    /\ pc' = "aborted"
    /\ mainResult' = "panicked"
    /\ IsNone(app')

\* C16 -- Initialization failure is fatal, with no retry: the adapter, the
\* device and the pipeline steps of resumed() each either bind their result
\* and go on or panic on the spot; after such a panic the Application is
\* absent, no frame has been or will be acquired, submitted or presented,
\* and no further step is taken.
InitFailureFatal ==
    /\ [][ pc = "resumed_adapter"
             => \/ pc' = "resumed_device" /\ IsSome(loc'.adapter)
                \/ PanicsAbsent ]_vars
    /\ [][ pc = "resumed_device"
             => \/ pc' = "resumed_configure" /\ IsSome(loc'.device)
                \/ PanicsAbsent ]_vars
    /\ [][ pc = "resumed_pipeline"
             => \/ pc' = "resumed_store" /\ IsSome(loc'.pipeline)
                \/ PanicsAbsent ]_vars
    /\ [](PanickedInActivation
            => /\ pc = "aborted"
               /\ IsNone(app)
               /\ lastEvent.kind = "Resumed"
               /\ created.texture = 0
               /\ submitted = << >>
               /\ presented = << >>)
    /\ [][ PanickedInActivation => UNCHANGED vars ]_vars

\* Witness of C16: the pipeline build has failed, with the device obtained
\* and the vertex buffer created.
InitFailureFatalWitness ==
    /\ PanickedInActivation
    /\ pc = "aborted"
    /\ IsSome(loc.device)
    /\ IsSome(loc.vertices_buffer)
    /\ IsNone(loc.pipeline)
    /\ IsNone(app)

\* The kinds of event window_event is called with.
WindowEventKinds ==
    { "CloseRequested", "Resized", "RedrawRequested", "Other" }

\* The step just taken changed nothing but the record of what the loop has
\* delivered: no GPU operation, no redraw request, no exit request.
NoEffect ==
    UNCHANGED << pc, app, loc, output, encoder, submitted, presented, created,
                 configureCalls, redrawRequests, redrawPending, exiting,
                 mainResult, frameLog, acquireFailed, sizeInForce >>

\* C17 -- Before activation, with the Application absent, a window event of
\* any kind is ignored: the handler changes nothing, the Application stays
\* absent and the loop is not asked to exit, not even by CloseRequested.
IgnoredBeforeActivation ==
    [][ ( /\ IsNone(app)
          /\ delivered' = delivered + 1
          /\ lastEvent'.kind \in WindowEventKinds )
        => /\ NoEffect
           /\ IsNone(app')
           /\ ~exiting' ]_vars

\* Witness of C17: two window events, the last a RedrawRequested, have
\* been delivered before activation, and the loop still runs.
IgnoredBeforeActivationWitness ==
    /\ IsNone(app)
    /\ pc = "idle"
    /\ resumesLeft = 1
    /\ delivered = 2
    /\ lastEvent.kind = "RedrawRequested"
    /\ ~exiting
    /\ created.texture = 0

\* C18 -- A window event for a window other than the application's is
\* ignored whatever its kind: configuration and surface stay as they are,
\* no frame is rendered, no redraw is requested and the loop is not asked
\* to exit.
IgnoredOtherWindow ==
    [][ ( /\ IsSome(app)
          /\ delivered' = delivered + 1
          /\ lastEvent'.kind \in WindowEventKinds
          /\ lastEvent'.window_id # Unwrap(app).window.id )
        => /\ NoEffect
           /\ ~exiting' ]_vars

\* Witness of C18: a CloseRequested for another window has been delivered
\* after a frame, and the loop still runs.
IgnoredOtherWindowWitness ==
    /\ IsSome(app)
    /\ pc = "idle"
    /\ lastEvent.kind = "CloseRequested"
    /\ lastEvent.window_id # Unwrap(app).window.id
    /\ ~exiting
    /\ Len(presented) = 1

\* C19 -- The surface is not reconfigured while an acquired image is
\* outstanding: from a frame's acquisition to its present no step calls
\* configure or changes the Application, and no event is delivered, because
\* the RedrawRequested arm runs to completion before the loop calls a
\* handler again.
NoConfigureDuringFrame ==
    [][ IsSome(output)
          => /\ configureCalls' = configureCalls
             /\ app' = app
             /\ delivered' = delivered ]_vars

\* Witness of C19: the second frame's image is outstanding, submitted and
\* not yet presented, in a run with an accepted Resized.
NoConfigureDuringFrameWitness ==
    /\ pc = "submitted"
    /\ IsSome(output)
    /\ Unwrap(output).frame = 2
    /\ configureCalls = 2

\* Both dimensions of a configuration are non-zero.
NonZeroSize(config) ==
    config.width > 0 /\ config.height > 0

\* The stored configuration and the one applied to the surface both have
\* non-zero dimensions.
ConfiguredNonZero ==
    /\ NonZeroSize(Unwrap(app).surface_config)
    /\ NonZeroSize(Unwrap(Unwrap(app).surface.config))

\* C20 -- After activation the stored and the applied configuration have
\* width > 0 and height > 0, provided the window's inner size at activation
\* is non-zero: they have it when resumed() returns with such a size (the
\* size in force is then the window's), and no step takes it away.
SizeStaysNonZero ==
    /\ []( ( /\ IsSome(app)
             /\ lastEvent.kind = "Resumed"
             /\ sizeInForce[1] > 0
             /\ sizeInForce[2] > 0 )
           => ConfiguredNonZero )
    /\ [][ IsSome(app) /\ ConfiguredNonZero
             => IsSome(app') /\ ConfiguredNonZero' ]_vars

\* Witness of C20: after an activation at a non-zero size and a frame, a
\* Resized with a zero dimension has been handled, and both configurations
\* are non-zero.
SizeStaysNonZeroWitness ==
    /\ IsSome(app)
    /\ ConfiguredNonZero
    /\ lastEvent = Event("Resized", Unwrap(app).window.id, 2, 0)
    /\ configureCalls = 1
    /\ Len(presented) = 1

====
